---- MODULE Spec2Model ----
(***************************************************************************)
(* Discord whitelist userscript (v0.4.0): the whitelist/collection store,  *)
(* the control panel's commands, the MessageObserver and the FilterEngine, *)
(* modelled as a state machine.  The host page is the environment: it      *)
(* adds and removes message nodes, injects content into them, and the user *)
(* clicks, types and calls the window.WL API.                              *)
(***************************************************************************)
EXTENDS Integers, Sequences, FiniteSets, TLC

VARIABLES
    collections,            \* StorageManager.collections: id -> entries (insertion-ordered usernames)
    activeCollection,       \* StorageManager.config.activeCollection
    userLookup,             \* WhitelistManager.userLookup: the set of lower-cased keys
    globalSettings,         \* StorageManager.config.globalSettings (enabled, hardHide, showAllTemp)
    defaultGlobalSettings,  \* DEFAULT_CONFIG.globalSettings (a shared mutable object)
    aliased,                \* config.globalSettings is the very object DEFAULT_CONFIG.globalSettings
    store,                  \* the Storage backend: the persisted config and collections
    ui,                     \* UIManager: activeCollectionId, hasUnsavedChanges, the editor's lines
    messageCache,           \* FilterEngine.messageCache: message id -> FilterResult
    toggleState,            \* the per-message toggles: message id -> visible
    stats,                  \* FilterEngine.stats
    isInitialized,          \* FilterEngine.isInitialized
    engineSubs,             \* how many times initialize() subscribed the four refresh handlers
    isObserving,            \* MessageObserver.isObserving
    observers,              \* connected MutationObservers
    debounceTimers,         \* pending debounce timeouts
    pendingMutations,       \* MessageObserver.pendingMutations, as the flush reads it
    rechecks,               \* per node, the pending 100 ms / 250 ms recheckMessage timeouts
    dom,                    \* the message nodes: lifecycle and presentation
    feed,                   \* a channel's sibling messages in document order: each one's username texts
    root,                   \* #app-mount: whether the document has one, and the observer's target
    subscribed,             \* the handlers subscribed through WL.events.on, in insertion order
    fault,                  \* per node, the DOM step that throws for it (a malformed node)
    tr,                     \* what the last operation did (history, read by the properties only)
    counted                 \* whether this specification follows the statistics (see Commit)

vars == <<collections, activeCollection, userLookup, globalSettings, defaultGlobalSettings,
          aliased, store, ui, messageCache, toggleState, stats, isInitialized, engineSubs, isObserving,
          observers, debounceTimers, pendingMutations, rechecks, dom, feed, root, subscribed, fault,
          tr, counted>>

-----------------------------------------------------------------------------
(* Bounds of the model *)

NumNodes == 3          \* message nodes the host can render
MaxHandlers == 3       \* click listeners counted exactly up to here (see AddListener)
MaxRecheck == 2        \* pending recheck timeouts tracked per node
MaxInit == 2           \* initialize() calls explored
MaxPending == 3        \* buffered added nodes beyond which the host moves no further node
MaxProcessed == 2      \* each counter of stats is followed up to here before resetStats

Nodes == 1..NumNodes

-----------------------------------------------------------------------------
(* Strings: trim and toLowerCase on the names the model uses *)

LongName == "aaaaaaaaaaaaaaaaaaaaaaaaaaaaaaaaa"   \* 33 characters

Trim(s) ==
    CASE s = " Alice " -> "Alice"
      [] s = "   "     -> ""
      [] OTHER         -> s

Lower(s) ==
    CASE s = "Alice"   -> "alice"
      [] s = " Alice " -> " alice "
      [] OTHER         -> s

validateUsername(username) ==
    LET trimmed == Trim(username) IN Len(trimmed) > 0 /\ Len(trimmed) <= 32

normalizeUsername(username) == Trim(username)

\* A variant whose key keeps the case of the name.
EntryKeyKeepsCase(username) == normalizeUsername(username)

EntryKey(username) == Lower(normalizeUsername(username))

-----------------------------------------------------------------------------
(* The world: every operation is a function from worlds to worlds *)

World ==
    [collections |-> collections, activeCollection |-> activeCollection,
     userLookup |-> userLookup, globalSettings |-> globalSettings,
     defaultGlobalSettings |-> defaultGlobalSettings, aliased |-> aliased,
     store |-> store, ui |-> ui, messageCache |-> messageCache,
     toggleState |-> toggleState, stats |-> stats,
     isInitialized |-> isInitialized, engineSubs |-> engineSubs,
     isObserving |-> isObserving, observers |-> observers,
     debounceTimers |-> debounceTimers, pendingMutations |-> pendingMutations,
     rechecks |-> rechecks, dom |-> dom, feed |-> feed, root |-> root,
     subscribed |-> subscribed, fault |-> fault,
     tr |-> tr]

Becomes(w) ==
    /\ collections' = w.collections
    /\ activeCollection' = w.activeCollection
    /\ userLookup' = w.userLookup
    /\ globalSettings' = w.globalSettings
    /\ defaultGlobalSettings' = w.defaultGlobalSettings
    /\ aliased' = w.aliased
    /\ store' = w.store
    /\ ui' = w.ui
    /\ messageCache' = w.messageCache
    /\ toggleState' = w.toggleState
    /\ stats' = w.stats
    /\ isInitialized' = w.isInitialized
    /\ engineSubs' = w.engineSubs
    /\ isObserving' = w.isObserving
    /\ observers' = w.observers
    /\ debounceTimers' = w.debounceTimers
    /\ pendingMutations' = w.pendingMutations
    /\ rechecks' = w.rechecks
    /\ dom' = w.dom
    /\ feed' = w.feed
    /\ root' = w.root
    /\ subscribed' = w.subscribed
    /\ fault' = w.fault
    /\ tr' = w.tr
    /\ counted' = counted

ToSet(s) == {s[i] : i \in DOMAIN s}

-----------------------------------------------------------------------------
(* WhitelistCollection *)

KeysOf(entries) == {Lower(entries[i]) : i \in DOMAIN entries}

hasEntry(entries, username) == EntryKey(username) \in KeysOf(entries)

\* addEntry: "throw" for an invalid name, "exists" (returns false), "added".
addEntryResult(entries, username) ==
    IF ~validateUsername(username) THEN "throw"
    ELSE IF EntryKey(username) \in KeysOf(entries) THEN "exists"
    ELSE "added"

addEntry(entries, username) ==
    IF addEntryResult(entries, username) = "added"
    THEN Append(entries, normalizeUsername(username))
    ELSE entries

removeEntry(entries, username) ==
    SelectSeq(entries, LAMBDA e : Lower(e) # EntryKey(username))

\* forEach(username => { try { addEntry(username) } catch {} })
RECURSIVE AddEach(_, _)
AddEach(entries, names) ==
    IF names = <<>> THEN entries
    ELSE AddEach(addEntry(entries, Head(names)), Tail(names))

-----------------------------------------------------------------------------
(* The host's message nodes *)

None == "<null>"

\* element.id: a Discord message carries chat-messages-<n>; the nodes that
\* the selector li.message accepts carry no id at all.
MsgId(n) ==
    CASE n = 1 -> "chat-messages-1"
      [] n = 4 -> "chat-messages-4"
      [] n = 5 -> "chat-messages-5"
      [] OTHER -> ""

\* The texts of the node's [class*="username"] elements, in document order.
Markers(n) ==
    CASE n % 4 = 1 -> <<"alice">>
      [] n % 4 = 2 -> <<"bob">>
      [] n % 4 = 3 -> <<>>
      [] OTHER     -> <<"   ", "bob">>

\* messageElement.offsetHeight < 50
IsShort(n) == n % 2 = 1

Kids == {"content"}     \* the text-bearing descendant elements, by a representative

\* style: the inline opacity, display, filter, pointer-events and user-select,
\* as one value: "" (none set), "host" (what the host page set), "dim" and
\* "none" (what applyFilterStyle sets).  hostStyle remembers what the host set.
FreshKid(present) == [present |-> present, cls |-> FALSE, style |-> "", hostStyle |-> ""]

FreshNode ==
    [life |-> "new", hidden |-> FALSE, collapsed |-> FALSE, indicator |-> FALSE,
     placeholders |-> 0, opacity |-> "", listeners |-> 0,
     kids |-> [k \in Kids |-> FreshKid(TRUE)]]

InDoc(w, n) == w.dom[n].life = "doc"

\* The nodes of S in document order (the order of their numbers).
RECURSIVE InOrderFrom(_, _)
InOrderFrom(S, n) ==
    IF n > NumNodes THEN <<>>
    ELSE (IF n \in S THEN <<n>> ELSE <<>>) \o InOrderFrom(S, n + 1)

InOrder(S) == InOrderFrom(S, 1)

\* document.querySelectorAll(MESSAGE_SELECTORS.messageContainer)
DocMessages(w) == InOrder({n \in Nodes : InDoc(w, n)})

-----------------------------------------------------------------------------
(* History of the last operation *)

NewTr(op, nodes) ==
    [op |-> op, nodes |-> nodes, isW |-> FALSE, visited |-> {}, hit |-> {},
     extracted |-> {}, looked |-> {}, cleared |-> FALSE, escaped |-> FALSE,
     called |-> <<>>, result |-> "ok"]

Note(w, field, n) == [w EXCEPT !.tr[field] = @ \cup {n}]

Ret(w, threw) == [w |-> w, threw |-> threw]

-----------------------------------------------------------------------------
(* FilterEngine: presentation *)

\* A click listener is an anonymous closure: each addEventListener adds one more.
\* Counted exactly up to MaxHandlers; beyond it the count alternates between
\* MaxHandlers - 1 and MaxHandlers, which keeps "more than one" and the parity
\* (all that a click depends on).
AddListener(count) == IF count < MaxHandlers THEN count + 1 ELSE MaxHandlers - 1

applyFilterStyle(style, g) == IF g.hardHide THEN "none" ELSE "dim"

\* A variant that leaves the hidden class on the message.
removeFilterClassesKeepsHidden(nr) ==
    [nr EXCEPT !.collapsed = FALSE, !.indicator = FALSE,
               !.placeholders = IF @ > 0 THEN @ - 1 ELSE 0,
               !.opacity = "",
               !.kids = [k \in Kids |-> [@[k] EXCEPT !.cls = FALSE, !.style = ""]]]

removeFilterClasses(nr) ==
    [nr EXCEPT !.hidden = FALSE, !.collapsed = FALSE, !.indicator = FALSE,
               !.placeholders = IF @ > 0 THEN @ - 1 ELSE 0,
               !.opacity = "",
               !.kids = [k \in Kids |-> [@[k] EXCEPT !.cls = FALSE, !.style = ""]]]

addPlaceholderText(nr) ==
    IF nr.placeholders > 0 THEN nr ELSE [nr EXCEPT !.placeholders = 1]

\* removeEventListener is given the closure just created: it removes nothing.
applyCollapseMode(nr, n) ==
    LET a == [nr EXCEPT !.collapsed = TRUE, !.listeners = AddListener(@)]
    IN  IF IsShort(n) \/ a.life # "doc" THEN addPlaceholderText(a) ELSE a

FilterKid(kid, g) ==
    IF kid.present /\ ~kid.cls
    THEN [kid EXCEPT !.cls = TRUE, !.style = applyFilterStyle(@, g)]
    ELSE kid

ScheduleRechecks(count) == IF count + 2 <= MaxRecheck THEN count + 2 ELSE MaxRecheck

applyFilteringToChildren(w, n, isW) ==
    IF isW THEN w
    ELSE [w EXCEPT !.dom[n].kids = [k \in Kids |-> FilterKid(@[k], w.globalSettings)],
                   !.rechecks[n] = ScheduleRechecks(@)]

\* recheckMessage: every text whose parent computes to opacity other than 0.2,
\* display other than none and carries no wl-filtered-child is filtered now.
RecheckKid(kid, g) ==
    IF kid.present /\ kid.style \in {"", "host"} /\ ~kid.cls
    THEN [kid EXCEPT !.cls = TRUE, !.style = applyFilterStyle(@, g)]
    ELSE kid

recheckMessage(w, n) ==
    [w EXCEPT !.dom[n].kids = [k \in Kids |-> RecheckKid(@[k], w.globalSettings)]]

\* A variant that decides the mode before the override and the master switch.
applyDisplayModeModeFirst(w, n, isW) ==
    LET g  == w.globalSettings
        w1 == [w EXCEPT !.dom[n] = removeFilterClasses(@)]
    IN  IF w.fault[n] = "remove" THEN Ret(w, TRUE)
        ELSE IF g.hardHide /\ ~isW THEN Ret([w1 EXCEPT !.dom[n].hidden = TRUE], FALSE)
        ELSE IF g.showAllTemp \/ ~g.enabled THEN Ret(w1, FALSE)
        ELSE IF isW THEN Ret([w1 EXCEPT !.dom[n].indicator = TRUE], FALSE)
        ELSE Ret(applyFilteringToChildren([w1 EXCEPT !.dom[n] = applyCollapseMode(@, n)],
                                          n, isW), FALSE)

applyDisplayMode(w, n, isW) ==
    LET g  == w.globalSettings
        w1 == [w EXCEPT !.dom[n] = removeFilterClasses(@)]
    IN  IF w.fault[n] = "remove" THEN Ret(w, TRUE)
        ELSE IF g.showAllTemp \/ ~g.enabled THEN Ret(w1, FALSE)
        ELSE IF w.fault[n] = "apply" THEN Ret(w1, TRUE)
        ELSE IF isW THEN Ret([w1 EXCEPT !.dom[n].indicator = TRUE], FALSE)
        ELSE LET w2 == IF g.hardHide
                       THEN [w1 EXCEPT !.dom[n].hidden = TRUE]
                       ELSE [w1 EXCEPT !.dom[n] = applyCollapseMode(@, n)]
             IN  Ret(applyFilteringToChildren(w2, n, isW), FALSE)

-----------------------------------------------------------------------------
(* FilterEngine: classification *)

isWhitelisted(w, username) == EntryKey(username) \in w.userLookup

RECURSIVE FirstUsable(_)
FirstUsable(texts) ==
    IF texts = <<>> THEN None
    ELSE LET text == Trim(Head(texts))
         IN  IF Len(text) > 0 /\ Len(text) <= 32 THEN text ELSE FirstUsable(Tail(texts))

\* The four selectors return the first username element; the fallback scans all.
extractUsername(w, n) ==
    IF w.fault[n] = "extract" THEN None
    ELSE LET texts == Markers(n)
         IN  IF texts # <<>> /\ Len(Trim(Head(texts))) > 0 THEN Trim(Head(texts))
             ELSE FirstUsable(texts)

isEnabled(w) == w.globalSettings.enabled

\* catch (e) { this.removeFilterClasses(messageElement) }
FilterCatch(w, n) ==
    IF w.fault[n] = "remove" THEN Ret(w, TRUE)
    ELSE Ret([w EXCEPT !.dom[n] = removeFilterClasses(@)], FALSE)

NoStats == [processed |-> 0, filtered |-> 0, whitelisted |-> 0]

CountResult(w, isW) ==
    IF isW THEN [w EXCEPT !.stats.whitelisted = @ + 1]
    ELSE [w EXCEPT !.stats.filtered = @ + 1]

\* the cached branch: applyDisplayMode(element, cached.isWhitelisted); return
AppliedCached(r, n) == IF r.threw THEN FilterCatch(r.w, n) ELSE r

\* the computed branch: applyDisplayMode, then the statistics
AppliedComputed(r, n, isW) ==
    IF r.threw THEN FilterCatch(r.w, n) ELSE Ret(CountResult(r.w, isW), FALSE)

\* this.messageCache.set(messageId, { isWhitelisted, username })
StoreResult(w, id, isW, username) ==
    [w EXCEPT !.messageCache = (id :> [isWhitelisted |-> isW, username |-> username]) @@ @]

\* A variant that does not store the result it computed.
filterMessageNoStore(w, n) ==
    IF ~isEnabled(w) THEN Ret(w, FALSE)
    ELSE IF MsgId(n) \in DOMAIN w.messageCache
    THEN AppliedCached(applyDisplayMode(Note(Note(w, "visited", n), "hit", n), n,
                                        w.messageCache[MsgId(n)].isWhitelisted), n)
    ELSE IF extractUsername(w, n) = None
    THEN FilterCatch(Note(Note(w, "visited", n), "extracted", n), n)
    ELSE IF w.fault[n] = "lookup"
    THEN FilterCatch(Note(Note(Note(w, "visited", n), "extracted", n), "looked", n), n)
    ELSE AppliedComputed(
             applyDisplayMode(Note(Note(Note(w, "visited", n), "extracted", n), "looked", n),
                              n, isWhitelisted(w, extractUsername(w, n))),
             n, isWhitelisted(w, extractUsername(w, n)))

filterMessage(w, n) ==
    IF ~isEnabled(w) THEN Ret(w, FALSE)
    ELSE IF MsgId(n) \in DOMAIN w.messageCache
    THEN AppliedCached(applyDisplayMode(Note(Note(w, "visited", n), "hit", n), n,
                                        w.messageCache[MsgId(n)].isWhitelisted), n)
    ELSE IF extractUsername(w, n) = None
    THEN FilterCatch(Note(Note(w, "visited", n), "extracted", n), n)
    ELSE IF w.fault[n] = "lookup"
    THEN FilterCatch(Note(Note(Note(w, "visited", n), "extracted", n), "looked", n), n)
    ELSE AppliedComputed(
             applyDisplayMode(
                 StoreResult(Note(Note(Note(w, "visited", n), "extracted", n), "looked", n),
                             MsgId(n), isWhitelisted(w, extractUsername(w, n)),
                             extractUsername(w, n)),
                 n, isWhitelisted(w, extractUsername(w, n))),
             n, isWhitelisted(w, extractUsername(w, n)))

\* batch.forEach(filterMessage); an exception that escapes filterMessage ends the loop
RECURSIVE FilterEach(_, _)
RECURSIVE FilterRest(_, _)
FilterEach(w, nodes) ==
    IF nodes = <<>> THEN Ret(w, FALSE)
    ELSE FilterRest(filterMessage(w, Head(nodes)), Tail(nodes))

FilterRest(r, rest) == IF r.threw THEN r ELSE FilterEach(r.w, rest)

\* A variant that sets the counter to the size of the last pass.
ProcessedOverwrites(r, count) ==
    IF r.threw THEN [r.w EXCEPT !.tr.escaped = TRUE]
    ELSE [r.w EXCEPT !.stats.processed = count]

\* after the forEach: an exception that left filterMessage ends the pass in
\* processMessages' own catch, otherwise stats.processed += messageElements.length
Processed(r, count) ==
    IF r.threw THEN [r.w EXCEPT !.tr.escaped = TRUE]
    ELSE [r.w EXCEPT !.stats.processed = @ + count]

\* The batches of 20 run back to back: setTimeout(() => {}, 0) only queues an
\* empty callback, so the call is one synchronous pass over messageElements.
processMessages(w, messageElements) ==
    IF ~isEnabled(w) THEN w
    ELSE Processed(FilterEach(w, messageElements), Len(messageElements))

\* messagesToProcess.forEach(removeFilterClasses), inside refreshAllMessages' try
RECURSIVE ClearEach(_, _)
ClearEach(w, nodes) ==
    IF nodes = <<>> THEN w
    ELSE IF w.fault[Head(nodes)] = "remove" THEN [w EXCEPT !.tr.escaped = TRUE]
    ELSE ClearEach([w EXCEPT !.dom[Head(nodes)] = removeFilterClasses(@)], Tail(nodes))

refreshAllMessages(w) ==
    LET w1 == [w EXCEPT !.messageCache = <<>>, !.tr.cleared = TRUE]
        messagesToProcess == DocMessages(w1)
    IN  IF messagesToProcess = <<>> THEN w1
        ELSE IF ~isEnabled(w1) THEN ClearEach(w1, messagesToProcess)
        ELSE processMessages(w1, messagesToProcess)

clearAllFiltering(w) == ClearEach(w, DocMessages(w))

-----------------------------------------------------------------------------
(* StorageManager, WhitelistManager, DataManager, the legacy state API *)

DEFAULTS == [enabled |-> TRUE, hardHide |-> FALSE, showAllTemp |-> FALSE, maxEntries |-> 1000]

Undefined == "<undefined>"

saveConfig(w) ==
    [w EXCEPT !.store.hasConfig = TRUE,
              !.store.activeCollection = w.activeCollection,
              !.store.globalSettings = w.globalSettings]

saveCollections(w) ==
    [w EXCEPT !.store.hasCollections = TRUE, !.store.collections = w.collections]

ActiveEntries(w) == w.collections[w.activeCollection]

rebuildLookupCache(w) == [w EXCEPT !.userLookup = KeysOf(ActiveEntries(w))]

\* config.globalSettings[field] = value; while the object is DEFAULT_CONFIG's own,
\* the defaults change with it.
SetSetting(w, field, value) ==
    [w EXCEPT !.globalSettings[field] = value,
              !.defaultGlobalSettings[field] = IF w.aliased THEN value ELSE @]

RECURSIVE RefreshTimes(_, _)
RefreshTimes(w, k) == IF k = 0 THEN w ELSE RefreshTimes(refreshAllMessages(w), k - 1)

\* UIManager's collection:switched handler reads data.newId; the event carries {from, to}.
UiOnSwitched(w) ==
    [w EXCEPT !.ui = [activeCollectionId |-> Undefined, hasUnsavedChanges |-> FALSE,
                      editor |-> ActiveEntries(w)]]

\* A variant in which the engine's handlers run before the lookup is rebuilt.
emitRefreshFirst(w, event) ==
    CASE event \in {"whitelist:user_added", "whitelist:user_removed", "whitelist:cleared"}
            -> RefreshTimes(w, w.engineSubs)
      [] event = "collection:switched"
            -> UiOnSwitched(rebuildLookupCache(RefreshTimes(w, w.engineSubs)))
      [] OTHER -> w

\* the handlers subscribed through WL.events.on run, each inside emit's try/catch
CallSubscribed(w) == [w EXCEPT !.tr.called = @ \o w.subscribed]

Thrower == "thrower"    \* a handler whose body throws

\* The handlers up to the first one that throws.
RECURSIVE UpToThrow(_)
UpToThrow(hs) ==
    IF hs = <<>> THEN <<>>
    ELSE IF Head(hs) = Thrower THEN <<Thrower>>
    ELSE <<Head(hs)>> \o UpToThrow(Tail(hs))

\* A variant without the try/catch around the handler: the first handler that
\* throws ends the emit and the exception reaches the emitting operation.
emitStopsAtThrow(w, event) ==
    CASE event \in {"whitelist:user_added", "whitelist:user_removed", "whitelist:cleared"}
            -> IF Thrower \in ToSet(w.subscribed)
               THEN [w EXCEPT !.tr.called = @ \o UpToThrow(w.subscribed), !.tr.result = "throw"]
               ELSE CallSubscribed(RefreshTimes(w, w.engineSubs))
      [] event = "collection:switched"
            -> IF Thrower \in ToSet(w.subscribed)
               THEN [UiOnSwitched(rebuildLookupCache(w)) EXCEPT
                        !.tr.called = @ \o UpToThrow(w.subscribed), !.tr.result = "throw"]
               ELSE CallSubscribed(RefreshTimes(UiOnSwitched(rebuildLookupCache(w)),
                                                w.engineSubs))
      [] OTHER -> w

\* eventBus.emit: the handlers in subscription order (the lookup rebuild and the
\* panel subscribe at load, the engine one second later, in initialize()), each
\* in its own try/catch.  The handlers of WL.events.on change nothing of the
\* model's state, so their place among the others is not followed.
emit(w, event) ==
    CASE event \in {"whitelist:user_added", "whitelist:user_removed", "whitelist:cleared"}
            -> CallSubscribed(RefreshTimes(w, w.engineSubs))
      [] event = "collection:switched"
            -> CallSubscribed(RefreshTimes(UiOnSwitched(rebuildLookupCache(w)), w.engineSubs))
      [] OTHER -> w

\* EventEmitter.on: Set.add (a handler already in the Set stays where it is)
on(w, handler) ==
    IF handler \in ToSet(w.subscribed) THEN w
    ELSE [w EXCEPT !.subscribed = Append(@, handler)]

\* EventEmitter.off: Set.delete
off(w, handler) ==
    [w EXCEPT !.subscribed = SelectSeq(@, LAMBDA h : h # handler)]

Result(w, r) == [w EXCEPT !.tr.result = r]

\* A variant that emits before it updates the lookup.
addUserEmitsFirst(w, username) ==
    LET entries == ActiveEntries(w)
        r == addEntryResult(entries, username)
    IN  IF r = "throw" THEN Result(w, "throw")
        ELSE IF r = "exists" THEN Result(w, "false")
        ELSE [emit(saveCollections(
                       [w EXCEPT !.collections[w.activeCollection] = addEntry(entries, username)]),
                   "whitelist:user_added")
                 EXCEPT !.userLookup = @ \cup {EntryKey(username)}]

addUser(w, username) ==
    LET entries == ActiveEntries(w)
        r == addEntryResult(entries, username)
    IN  IF r = "throw" THEN Result(w, "throw")
        ELSE IF r = "exists" THEN Result(w, "false")
        ELSE LET w1 == [w EXCEPT !.collections[w.activeCollection] = addEntry(entries, username),
                                 !.userLookup = @ \cup {EntryKey(username)}]
             IN  emit(saveCollections(w1), "whitelist:user_added")

removeUser(w, username) ==
    LET entries == ActiveEntries(w)
    IN  IF ~hasEntry(entries, username) THEN Result(w, "false")
        ELSE LET w1 == [w EXCEPT !.collections[w.activeCollection] = removeEntry(entries, username),
                                 !.userLookup = @ \ {EntryKey(username)}]
             IN  emit(saveCollections(w1), "whitelist:user_removed")

clearWhitelist(w) ==
    LET w1 == [w EXCEPT !.collections[w.activeCollection] = <<>>, !.userLookup = {}]
    IN  emit(saveCollections(w1), "whitelist:cleared")

\* partial: [hasWhitelist, whitelist, field, value]; field "none" sets no setting
setLegacyState(w, partial) ==
    LET w1 == IF partial.hasWhitelist
              THEN rebuildLookupCache(saveCollections(
                       [w EXCEPT !.collections[w.activeCollection] =
                                     AddEach(<<>>, partial.whitelist)]))
              ELSE w
        w2 == IF partial.field = "none" THEN w1
              ELSE SetSetting(w1, partial.field, partial.value)
    IN  saveConfig(w2)

resetLegacyState(w) ==
    LET w1 == [w EXCEPT !.collections[w.activeCollection] = <<>>,
                        !.globalSettings = w.defaultGlobalSettings,
                        !.aliased = FALSE]
    IN  rebuildLookupCache(saveCollections(saveConfig(w1)))

\* importWhitelist(data, 'txt'): the lines, trimmed, the empty ones dropped
RECURSIVE TxtLines(_)
TxtLines(lines) ==
    IF lines = <<>> THEN <<>>
    ELSE (IF Trim(Head(lines)) = "" THEN <<>> ELSE <<Trim(Head(lines))>>) \o TxtLines(Tail(lines))

importWhitelist(w, lines) ==
    LET w1 == [w EXCEPT !.collections[w.activeCollection] = AddEach(@, TxtLines(lines))]
    IN  emit(saveCollections(w1), "whitelist:imported")

createCollection(w, id) ==
    IF id \in DOMAIN w.collections THEN Result(w, "throw")
    ELSE emit(saveCollections([w EXCEPT !.collections = (id :> <<>>) @@ @]),
              "collection:created")

\* A variant that leaves the deleted collection's id active.
deleteCollectionKeepsActive(w, id) ==
    IF id = "default" THEN Result(w, "throw")
    ELSE IF id \notin DOMAIN w.collections THEN Result(w, "false")
    ELSE emit(saveCollections([w EXCEPT !.collections = [c \in DOMAIN @ \ {id} |-> @[c]]]),
              "collection:deleted")

deleteCollection(w, id) ==
    IF id = "default" THEN Result(w, "throw")
    ELSE IF id \notin DOMAIN w.collections THEN Result(w, "false")
    ELSE LET w1 == [w EXCEPT !.collections = [c \in DOMAIN @ \ {id} |-> @[c]]]
             w2 == IF w.activeCollection = id
                   THEN saveConfig([w1 EXCEPT !.activeCollection = "default"])
                   ELSE w1
         IN  emit(saveCollections(w2), "collection:deleted")

switchActiveCollection(w, id) ==
    IF id \notin DOMAIN w.collections THEN Result(w, "throw")
    ELSE emit(saveConfig([w EXCEPT !.activeCollection = id]), "collection:switched")

-----------------------------------------------------------------------------
(* UIManager: the panel's commands *)

uiHandleWhitelistChange(w, lines) ==
    [w EXCEPT !.ui.editor = lines, !.ui.hasUnsavedChanges = TRUE]

uiHandleCollectionSwitch(w, newId, confirmed) ==
    IF newId = w.ui.activeCollectionId THEN w
    ELSE IF w.ui.hasUnsavedChanges /\ ~confirmed THEN w
    ELSE switchActiveCollection(w, newId)

uiDeleteCollection(w, confirmed) ==
    IF w.activeCollection = "default" \/ ~confirmed THEN w
    ELSE deleteCollection(w, w.activeCollection)

\* for (const username of usernames): break once added >= maxEntries; an
\* invalid name is caught and skipped, a name already there does not count
RECURSIVE SaveEach(_, _, _, _)
SaveEach(entries, names, added, limit) ==
    IF names = <<>> \/ added >= limit THEN entries
    ELSE SaveEach(addEntry(entries, Head(names)), Tail(names),
                  IF addEntryResult(entries, Head(names)) = "added" THEN added + 1 ELSE added,
                  limit)

uiSaveChanges(w) ==
    LET w1 == [w EXCEPT !.collections[w.activeCollection] =
                            SaveEach(<<>>, TxtLines(w.ui.editor), 0, w.globalSettings.maxEntries),
                        !.ui.hasUnsavedChanges = FALSE]
    IN  refreshAllMessages(saveCollections(w1))

uiClearCurrentCollection(w, confirmed) ==
    IF ~confirmed THEN w
    ELSE LET w1 == saveCollections([w EXCEPT !.collections[w.activeCollection] = <<>>])
         IN  [w1 EXCEPT !.ui.editor = <<>>, !.ui.hasUnsavedChanges = FALSE]

\* the three filter controls: write the setting, saveConfig, refreshAllMessages
uiMasterEnable(w, checked) ==
    refreshAllMessages(saveConfig(SetSetting(w, "enabled", checked)))

uiDisplayMode(w, mode) ==
    refreshAllMessages(saveConfig(
        SetSetting(SetSetting(w, "hardHide", mode = "hard-hide"),
                   "showAllTemp", mode = "show-all")))

uiTempOverride(w, checked) ==
    refreshAllMessages(saveConfig(SetSetting(w, "showAllTemp", checked)))

\* WL.system.setEnabled / setHardHide / setShowAllTemp
systemSet(w, field, value) == saveConfig(SetSetting(w, field, value))

-----------------------------------------------------------------------------
(* MessageObserver *)

RECURSIVE Flatten(_)
Flatten(seqs) == IF seqs = <<>> THEN <<>> ELSE Head(seqs) \o Flatten(Tail(seqs))

\* A variant that keeps every occurrence.
UniqueKeepsAll(seen, nodes) == seen \o nodes

\* new Set(): first occurrence kept, insertion order
RECURSIVE Unique(_, _)
Unique(seen, nodes) ==
    IF nodes = <<>> THEN seen
    ELSE Unique(IF Head(nodes) \in ToSet(seen) THEN seen ELSE Append(seen, Head(nodes)),
                Tail(nodes))

\* A variant that keeps only the records of the last callback.
handleMutationsKeepsLast(w, record) ==
    [w EXCEPT !.pendingMutations = Flatten(record),
              !.debounceTimers = (IF @ > 0 THEN @ - 1 ELSE 0) + 1]

\* A mutation record is the sequence of its added elements; an added element is
\* given by the message containers it is or contains (none for other elements).
\* The buffer is kept as all that processPendingMutations reads of the records:
\* their message containers, in the order of arrival.
handleMutations(w, record) ==
    [w EXCEPT !.pendingMutations = @ \o Flatten(record),
              !.debounceTimers = (IF @ > 0 THEN @ - 1 ELSE 0) + 1]

\* The callback runs for the changes under the observer's target: the document
\* body, or the #app-mount element that start() found, while it is attached.
Deliver(w, record) ==
    IF w.observers > 0 /\ w.root.target \in {"body", "mount"} THEN handleMutations(w, record)
    ELSE w

\* the batch of one flush; the history notes whether a node had been found twice
Flushed(w, messagesToProcess) ==
    IF messagesToProcess # <<>>
    THEN processMessages(
             [w EXCEPT !.pendingMutations = <<>>, !.tr.nodes = messagesToProcess,
                       !.tr.result = IF Len(w.pendingMutations) > Len(messagesToProcess)
                                     THEN "deduplicated" ELSE "ok"],
             messagesToProcess)
    ELSE [w EXCEPT !.pendingMutations = <<>>, !.tr.nodes = <<>>]

\* A variant that leaves the flushed records in the buffer.
processPendingMutationsKeepsBuffer(w) ==
    [Flushed(w, Unique(<<>>, w.pendingMutations)) EXCEPT !.pendingMutations = w.pendingMutations]

processPendingMutations(w) == Flushed(w, Unique(<<>>, w.pendingMutations))

processExistingMessages(w) ==
    IF DocMessages(w) # <<>> THEN processMessages(w, DocMessages(w)) ELSE w

start(w) ==
    IF w.isObserving THEN w
    ELSE processExistingMessages(
             [w EXCEPT !.observers = @ + 1, !.isObserving = TRUE,
                       !.root.target = IF w.root.present THEN "mount" ELSE "body"])

\* A variant of stop() that leaves the debounce timer pending.
stopKeepsTimer(w) ==
    IF ~w.isObserving THEN w
    ELSE [w EXCEPT !.observers = @ - 1, !.isObserving = FALSE, !.pendingMutations = <<>>,
                   !.root.target = "none"]

stop(w) ==
    IF ~w.isObserving THEN w
    ELSE [w EXCEPT !.observers = @ - 1, !.debounceTimers = 0,
                   !.isObserving = FALSE, !.pendingMutations = <<>>,
                   !.root.target = "none"]

-----------------------------------------------------------------------------
(* FilterEngine: life cycle *)

initialize(w) ==
    IF w.isInitialized THEN w
    ELSE [start([w EXCEPT !.engineSubs = @ + 1]) EXCEPT !.isInitialized = TRUE]

shutdown(w) ==
    IF ~w.isInitialized THEN w
    ELSE [clearAllFiltering(stop(w)) EXCEPT !.messageCache = <<>>, !.tr.cleared = TRUE,
                                            !.isInitialized = FALSE]

resetStats(w) == [w EXCEPT !.stats = NoStats]

-----------------------------------------------------------------------------
(* The user's click on a message: every attached listener runs *)

handleClick(nr, f) ==
    IF nr.collapsed
    THEN (IF f = "remove" THEN nr ELSE [nr EXCEPT !.collapsed = FALSE, !.opacity = "1"])
    ELSE (IF f = "apply" THEN nr ELSE [nr EXCEPT !.collapsed = TRUE, !.opacity = "0.3"])

RECURSIVE ClickTimes(_, _, _)
ClickTimes(nr, f, k) == IF k = 0 THEN nr ELSE ClickTimes(handleClick(nr, f), f, k - 1)

dispatchClick(w, n) == [w EXCEPT !.dom[n] = ClickTimes(@, w.fault[n], @.listeners)]

-----------------------------------------------------------------------------
(* Initial states *)

Faults == {"none", "extract", "lookup", "apply", "remove"}

SettingsSpace ==
    [enabled : BOOLEAN, hardHide : BOOLEAN, showAllTemp : BOOLEAN, maxEntries : {1000}]

\* No value under STORAGE_KEY, the key of the script's first version.
NoLegacy == [stored |-> FALSE, whitelist |-> <<>>, settings |-> DEFAULTS]

\* The state after the script has loaded: entries0 is the stored default
\* collection, g0 the stored settings (fresh: nothing stored, the config shares
\* DEFAULT_CONFIG's settings object), flt the malformed nodes of this page,
\* present the messages the page shows already.
InitWith(entries0, g0, fresh, flt, present, count) ==
    /\ collections = ("default" :> entries0)
    /\ activeCollection = "default"
    /\ userLookup = KeysOf(entries0)
    /\ globalSettings = g0
    /\ defaultGlobalSettings = DEFAULTS
    /\ aliased = fresh
    /\ store = [hasConfig |-> ~fresh, activeCollection |-> "default", globalSettings |-> g0,
                hasCollections |-> entries0 # <<>>, collections |-> ("default" :> entries0),
                legacy |-> NoLegacy]
    /\ ui = [activeCollectionId |-> "default", hasUnsavedChanges |-> FALSE, editor |-> entries0]
    /\ messageCache = <<>>
    /\ toggleState = <<>>
    /\ stats = NoStats
    /\ isInitialized = FALSE
    /\ engineSubs = 0
    /\ isObserving = FALSE
    /\ observers = 0
    /\ debounceTimers = 0
    /\ pendingMutations = <<>>
    /\ rechecks = [n \in Nodes |-> 0]
    /\ dom = [n \in Nodes |-> [FreshNode EXCEPT !.life = IF n \in present THEN "doc" ELSE "new"]]
    /\ feed = <<>>
    /\ root = [present |-> TRUE, target |-> "none"]
    /\ subscribed = <<>>
    /\ fault = flt
    /\ tr = NewTr("load", <<>>)
    /\ counted = count

NoFaults == [n \in Nodes |-> "none"]

-----------------------------------------------------------------------------
(* Actions *)

Begin(op) == [World EXCEPT !.tr = NewTr(op, <<>>)]

BeginOn(op, nodes) == [World EXCEPT !.tr = NewTr(op, nodes)]

\* The operation's result becomes the next state.  No operation reads the
\* statistics: a specification whose properties do not read them either holds
\* them at zero, the others follow them up to MaxProcessed.
Commit(w) ==
    \E after \in {IF counted THEN w ELSE [w EXCEPT !.stats = NoStats]} :
        /\ after.stats.processed <= MaxProcessed
        /\ after.stats.filtered <= MaxProcessed
        /\ after.stats.whitelisted <= MaxProcessed
        /\ Becomes(after)

NameInputs == {"alice", " Alice ", "bob", "   "}

LineInputs == {<<>>, <<"bob">>, <<" Alice ", "alice">>}

CollectionIds == {"default", "c1"}

\* --- the host page and the user ---

\* The host renders new message nodes, as separate added nodes or inside one wrapper.
HostAdd(S, wrapped) ==
    /\ S # {} /\ \A n \in S : dom[n].life = "new"
    /\ LET record  == IF wrapped THEN <<InOrder(S)>>
                      ELSE [i \in DOMAIN InOrder(S) |-> <<InOrder(S)[i]>>]
           w1      == [BeginOn("host", InOrder(S)) EXCEPT
                          !.dom = [n \in Nodes |-> IF n \in S THEN [@[n] EXCEPT !.life = "doc"]
                                                   ELSE @[n]]]
       IN  Commit(Deliver(w1, record))

\* The host removes a message node (virtualisation): a record with no added node.
HostRemove(n) ==
    /\ dom[n].life = "doc"
    /\ Commit(Deliver([Begin("host") EXCEPT !.dom[n].life = "gone"], <<>>))

\* The host re-renders a message's content: its descendants are new elements.
HostInject(n) ==
    /\ dom[n].life = "doc" /\ \E k \in Kids : dom[n].kids[k].cls
    /\ Commit(Deliver([Begin("host") EXCEPT !.dom[n].kids = [k \in Kids |-> FreshKid(TRUE)]],
                      <<<<>>>>))

\* The host sets inline styles on a descendant of a message (an attribute
\* change: the observer, which watches child lists, is not told).
HostStyle(n) ==
    /\ dom[n].life = "doc"
    /\ \E k \in Kids : dom[n].kids[k].present /\ dom[n].kids[k].style = ""
    /\ Commit([Begin("host") EXCEPT
                  !.dom[n].kids = [k \in Kids |->
                      IF @[k].present /\ @[k].style = ""
                      THEN [@[k] EXCEPT !.style = "host", !.hostStyle = "host"]
                      ELSE @[k]]])

\* The host moves a message node that is in the document (a re-render of the
\* list): a record that names it as added once more.
HostReattach(n) ==
    /\ dom[n].life = "doc" /\ Len(pendingMutations) < MaxPending
    /\ Commit(Deliver(Begin("host"), <<<<n>>>>))

\* The host replaces #app-mount by a new element: the messages of the old one
\* leave the document with it.  An observer on the body is told of the new
\* element; an observer on the old element is told nothing, its target is detached.
HostReplaceRoot ==
    /\ root.present
    /\ Commit(Deliver([Begin("host") EXCEPT
                           !.dom = [n \in Nodes |-> IF @[n].life = "doc"
                                                    THEN [@[n] EXCEPT !.life = "gone"] ELSE @[n]],
                           !.root.target = IF @ = "mount" THEN "detached" ELSE @],
                      <<<<>>>>))

\* The host adds #app-mount to a document that had none.
HostMountRoot ==
    /\ ~root.present
    /\ Commit(Deliver([Begin("host") EXCEPT !.root.present = TRUE], <<<<>>>>))

Click(n) ==
    /\ dom[n].life = "doc" /\ ~dom[n].hidden /\ dom[n].listeners > 0
    /\ Commit(dispatchClick(BeginOn("click", <<n>>), n))

\* --- timers ---

DebounceFire ==
    /\ debounceTimers > 0
    /\ Commit(processPendingMutations([Begin("flush") EXCEPT !.debounceTimers = @ - 1]))

RecheckFire(n) ==
    /\ rechecks[n] > 0
    /\ Commit(recheckMessage([BeginOn("recheck", <<n>>) EXCEPT !.rechecks[n] = @ - 1], n))

\* --- WL.filter ---

Initialize ==
    /\ engineSubs < MaxInit
    /\ Commit(initialize(Begin("initialize")))

Shutdown == Commit(shutdown(Begin("shutdown")))

RefreshCall == Commit(refreshAllMessages(Begin("refresh")))

ClearAllCall == Commit(clearAllFiltering(Begin("clear")))

ResetStats ==
    /\ stats # NoStats
    /\ Commit(resetStats(Begin("resetStats")))

\* WL.filter.engine.processMessages(nodes), also what re-observing a node amounts to
ProcessCall(nodes) ==
    /\ \A i \in DOMAIN nodes : dom[nodes[i]].life # "new"
    /\ Commit(processMessages(BeginOn("process", nodes), nodes))

ApplyDisplayModeCall(n, isW) ==
    /\ dom[n].life # "new"
    /\ fault[n] = "none"
    /\ Commit(applyDisplayMode([BeginOn("applyDisplayMode", <<n>>) EXCEPT !.tr.isW = isW],
                               n, isW).w)

\* --- WL.whitelist, WL.collections, WL.data, the legacy API ---

AddUser(u) == Commit(addUser(Begin("addUser"), u))

RemoveUser(u) == Commit(removeUser(Begin("removeUser"), u))

ClearWhitelist == Commit(clearWhitelist(Begin("clearWhitelist")))

SetState(partial) == Commit(setLegacyState(Begin("setState"), partial))

ResetState == Commit(resetLegacyState(Begin("resetState")))

ImportWhitelist(lines) == Commit(importWhitelist(Begin("import"), lines))

CreateCollection(id) == Commit(createCollection(Begin("createCollection"), id))

DeleteCollection(id) == Commit(deleteCollection(Begin("deleteCollection"), id))

SwitchActiveCollection(id) == Commit(switchActiveCollection(Begin("switch"), id))

SystemSet(field, value) == Commit(systemSet(Begin("systemSet"), field, value))

\* WL.system.setConfig({ globalSettings: { maxEntries: limit } })
SetMaxEntries(limit) == Commit(systemSet(Begin("setConfig"), "maxEntries", limit))

EventsOn(handler) == Commit(on(Begin("on"), handler))

EventsOff(handler) == Commit(off(Begin("off"), handler))

\* --- the panel ---

UiType(lines) ==
    /\ lines # ui.editor
    /\ Commit(uiHandleWhitelistChange(Begin("uiType"), lines))

UiSave == Commit(uiSaveChanges(Begin("uiSave")))

UiClear(confirmed) == Commit(uiClearCurrentCollection(Begin("uiClear"), confirmed))

UiSwitch(id, confirmed) ==
    /\ id \in DOMAIN collections
    /\ Commit(uiHandleCollectionSwitch(Begin("uiSwitch"), id, confirmed))

\* createNewCollection: createCollection(name) under a generated id, then the
\* switch to it unless the creation threw
UiCreate(id) ==
    /\ id \notin DOMAIN collections
    /\ \E w1 \in {createCollection(Begin("uiCreate"), id)} :
           Commit(IF w1.tr.result = "throw" THEN w1 ELSE switchActiveCollection(w1, id))

UiDelete(confirmed) == Commit(uiDeleteCollection(Begin("uiDelete"), confirmed))

PanelEnable(checked) == Commit(uiMasterEnable(Begin("panelEnable"), checked))

PanelDisplayMode(mode) == Commit(uiDisplayMode(Begin("panelMode"), mode))

PanelTempOverride(checked) == Commit(uiTempOverride(Begin("panelTemp"), checked))

Toggles == {"enabled", "hardHide", "showAllTemp"}

-----------------------------------------------------------------------------
(* The visibility policy on one message                                      *)
(* One message is on the page (a short one or a tall one); the display mode  *)
(* is applied to it directly, under every setting, and the user clicks it.   *)

InitPolicy ==
    \E g \in SettingsSpace, n \in {1, 2} : InitWith(<<>>, g, FALSE, NoFaults, {n}, FALSE)

NextPolicy ==
    \/ \E n \in Nodes, isW \in BOOLEAN : ApplyDisplayModeCall(n, isW)
    \/ \E field \in Toggles, value \in BOOLEAN : SystemSet(field, value)
    \/ \E n \in Nodes : Click(n)
    \/ \E n \in Nodes : RecheckFire(n)
    \/ \E n \in Nodes : HostInject(n)

SpecPolicy == InitPolicy /\ [][NextPolicy]_vars

\* The action a message node carries, read off its filter classes.
Carried(nr) ==
    CASE ~nr.hidden /\ ~nr.collapsed /\ ~nr.indicator -> "Show"
      [] ~nr.hidden /\ ~nr.collapsed /\ nr.indicator  -> "ShowIndicator"
      [] nr.hidden /\ ~nr.collapsed /\ ~nr.indicator  -> "Remove"
      [] ~nr.hidden /\ nr.collapsed /\ ~nr.indicator  -> "Collapse"
      [] OTHER -> "Mixed"

\* The action the policy gives.
PolicyAction(isW, g) ==
    IF g.showAllTemp \/ ~g.enabled THEN "Show"
    ELSE IF isW THEN "ShowIndicator"
    ELSE IF g.hardHide THEN "Remove"
    ELSE "Collapse"

\* C1: right after applyDisplayMode(message, isWhitelisted), the message carries
\* Show if showAllTemp or not enabled, else the whitelisted indicator if
\* isWhitelisted, else Remove if hardHide, else Collapse.
C1_DisplayModeFollowsPolicy ==
    tr.op = "applyDisplayMode" =>
        Carried(dom[tr.nodes[1]]) = PolicyAction(tr.isW, globalSettings)

\* applyDisplayMode ran for a non-whitelisted author with hardHide and
\* showAllTemp both set, and the message is shown.
C1_Witness ==
    /\ tr.op = "applyDisplayMode" /\ ~tr.isW
    /\ globalSettings.enabled /\ globalSettings.hardHide /\ globalSettings.showAllTemp
    /\ Carried(dom[tr.nodes[1]]) = "Show"

\* C9: applying the same action to a message twice in a row, under the same
\* settings, leaves the node as the first application left it: the same filter
\* classes, the same placeholder, the same (single) click handler.
C9_SecondApplicationChangesNothing ==
    [][(/\ tr.op = "applyDisplayMode" /\ tr'.op = "applyDisplayMode"
        /\ tr'.nodes = tr.nodes /\ tr'.isW = tr.isW
        /\ globalSettings' = globalSettings)
       => dom' = dom]_vars

\* the message's text and that of its descendants is neither dimmed, blurred
\* nor hidden
TextShown(nr) ==
    /\ ~nr.hidden /\ nr.opacity \in {"", "1"}
    /\ \A k \in Kids : nr.kids[k].present => nr.kids[k].style = ""

\* C28: a click on a collapsed message expands it: the collapsed class is
\* gone and the text of the message and of its descendants is shown; the
\* next click on it collapses it again.
C28_ClickExpandsCollapsedMessage ==
    [][tr'.op = "click" =>
          /\ dom[tr'.nodes[1]].collapsed
                 => ~dom'[tr'.nodes[1]].collapsed /\ TextShown(dom'[tr'.nodes[1]])
          /\ (tr.op = "click" /\ tr.nodes = tr'.nodes /\ ~dom[tr'.nodes[1]].collapsed)
                 => dom'[tr'.nodes[1]].collapsed]_vars

-----------------------------------------------------------------------------
(* The engine on a page that shows one message                              *)
(* The page renders one message (a short one or a tall one) before or after *)
(* the engine starts; the user works the panel's filter controls and the    *)
(* whitelist; the timers fire in any order.                                  *)

InitEngine == InitWith(<<>>, DEFAULTS, FALSE, NoFaults, {}, FALSE)

NextEngine ==
    \/ \E n \in {1, 2}, wrapped \in BOOLEAN :
           (\A m \in Nodes : dom[m].life = "new") /\ HostAdd({n}, wrapped)
    \/ \E n \in Nodes : HostInject(n)
    \/ \E n \in Nodes : HostRemove(n)
    \/ \E n \in Nodes : RecheckFire(n)
    \/ DebounceFire
    \/ Initialize
    \/ Shutdown
    \/ RefreshCall
    \/ ClearAllCall
    \/ \E checked \in BOOLEAN : PanelEnable(checked)
    \/ \E mode \in {"collapse", "hard-hide", "show-all"} : PanelDisplayMode(mode)
    \/ \E checked \in BOOLEAN : PanelTempOverride(checked)
    \/ \E u \in {"alice"} : AddUser(u)
    \/ \E u \in {"alice"} : RemoveUser(u)

SpecEngine == InitEngine /\ [][NextEngine]_vars

\* A message and all its descendants are unsuppressed.
Unsuppressed(nr) ==
    /\ ~nr.hidden /\ ~nr.collapsed
    /\ \A k \in Kids : ~nr.kids[k].cls /\ nr.kids[k].style = ""

\* Filtering is disabled, showAllTemp is set, or the author is whitelisted.
PolicyVisible(n) ==
    \/ globalSettings.showAllTemp
    \/ ~globalSettings.enabled
    \/ /\ extractUsername(World, n) # None
       /\ isWhitelisted(World, extractUsername(World, n))

SameSettingsAndWhitelist ==
    /\ globalSettings' = globalSettings
    /\ userLookup' = userLookup
    /\ collections' = collections
    /\ activeCollection' = activeCollection

\* C4: a message that a refresh has just made fully visible (filtering off,
\* showAllTemp set, or its author whitelisted) is still unsuppressed, with all
\* its descendants, after the next step that changes neither settings nor
\* whitelist -- a delayed re-check of an earlier suppression included.
C4_VisibleAfterRefreshStaysVisible ==
    [][\A n \in Nodes :
          (/\ tr.cleared /\ tr.op # "shutdown"
           /\ InDoc(World, n) /\ PolicyVisible(n) /\ Unsuppressed(dom[n])
           /\ SameSettingsAndWhitelist)
          => Unsuppressed(dom'[n])]_vars

\* C5: in the state shutdown() returns to, a debounce flush or a re-check that
\* runs next changes no message node, and a host mutation arms no timer and
\* buffers nothing.
C5_NothingRunsAfterShutdown ==
    [][(tr.op = "shutdown" /\ tr.cleared) =>
          /\ tr'.op \in {"recheck", "flush"} => dom' = dom
          /\ tr'.op = "host" => debounceTimers' = 0 /\ pendingMutations' = <<>>]_vars

\* C29: one MutationObserver is connected at most; the engine has its refresh
\* handlers subscribed once while it is initialized and not at all while it is
\* shut down, so a whitelist or collection event refreshes once while the
\* engine is initialized and never while it is shut down.
C29_NoLeakedObserversOrHandlers ==
    /\ [](/\ observers <= 1
          /\ engineSubs = IF isInitialized THEN 1 ELSE 0)
    /\ [][(tr'.op \in {"addUser", "removeUser", "clearWhitelist", "switch"}
           /\ tr'.result = "ok")
             => (tr'.cleared <=> isInitialized)]_vars

-----------------------------------------------------------------------------
(* Changes of settings, whitelist and collections                           *)
(* The page shows one message written by bob.  The engine is started and    *)
(* refreshed while the settings, the whitelist and the collections change   *)
(* through the API, the legacy API and the panel.                            *)

StateInputs ==
    {[hasWhitelist |-> TRUE, whitelist |-> <<"bob">>, field |-> "none", value |-> FALSE],
     [hasWhitelist |-> FALSE, whitelist |-> <<>>, field |-> "hardHide", value |-> TRUE]}

InitChange == InitWith(<<>>, DEFAULTS, FALSE, NoFaults, {2}, FALSE)

NextChange ==
    \/ Initialize
    \/ RefreshCall
    \/ \E field \in Toggles, value \in BOOLEAN : SystemSet(field, value)
    \/ \E checked \in BOOLEAN : PanelEnable(checked)
    \/ \E mode \in {"collapse", "hard-hide", "show-all"} : PanelDisplayMode(mode)
    \/ \E checked \in BOOLEAN : PanelTempOverride(checked)
    \/ \E u \in {"bob"} : AddUser(u)
    \/ \E u \in {"bob"} : RemoveUser(u)
    \/ ClearWhitelist
    \/ \E lines \in {<<"bob">>} : ImportWhitelist(lines)
    \/ \E partial \in StateInputs : SetState(partial)
    \/ ResetState
    \/ \E lines \in {<<>>, <<"bob">>} : UiType(lines)
    \/ UiSave
    \/ \E confirmed \in BOOLEAN : UiClear(confirmed)

SpecChange == InitChange /\ [][NextChange]_vars

\* The action the policy gives for message n under the current settings and
\* the current active collection.
Expected(n) ==
    PolicyAction(hasEntry(ActiveEntries(World), extractUsername(World, n)), globalSettings)

\* C3: when an operation that ran refreshAllMessages has completed, every
\* message in the document with a resolvable username carries the action the
\* policy gives for the current settings and the current active whitelist.
C3_RefreshAppliesCurrentPolicy ==
    (tr.cleared /\ tr.op # "shutdown") =>
        \A n \in Nodes :
            (InDoc(World, n) /\ extractUsername(World, n) # None)
                => Carried(dom[n]) = Expected(n)

\* The keys of the active collection: its membership.
Membership == KeysOf(ActiveEntries(World))

\* C6: an operation that changes the active whitelist's membership, the active
\* collection or the enabled/hardHide/showAllTemp settings while the cache
\* holds results clears the cache in its course (and re-filters): no result
\* computed before the change is left.
C6_ChangeInvalidatesCache ==
    [][(/\ messageCache # <<>>
        /\ \/ globalSettings' # globalSettings
           \/ activeCollection' # activeCollection
           \/ Membership' # Membership)
       => tr'.cleared]_vars

-----------------------------------------------------------------------------
(* The whitelist and its collections                                        *)
(* No page, no engine: the whitelist is edited through the API, the legacy  *)
(* API, the import and the panel, and collections are created, switched to  *)
(* and deleted.                                                              *)

InitWL == InitWith(<<>>, DEFAULTS, FALSE, NoFaults, {}, FALSE)

NextWL ==
    \/ \E u \in NameInputs : AddUser(u)
    \/ \E u \in NameInputs : RemoveUser(u)
    \/ ClearWhitelist
    \/ \E lines \in LineInputs : ImportWhitelist(lines)
    \/ \E partial \in StateInputs : SetState(partial)
    \/ ResetState
    \/ \E lines \in LineInputs : UiType(lines)
    \/ UiSave
    \/ \E confirmed \in BOOLEAN : UiClear(confirmed)
    \/ \E id \in CollectionIds, confirmed \in BOOLEAN : UiSwitch(id, confirmed)
    \/ \E id \in CollectionIds : UiCreate(id)
    \/ \E confirmed \in BOOLEAN : UiDelete(confirmed)
    \/ \E id \in CollectionIds : CreateCollection(id)
    \/ \E id \in CollectionIds : SwitchActiveCollection(id)
    \/ \E id \in CollectionIds : DeleteCollection(id)

SpecWL == InitWL /\ [][NextWL]_vars

\* C7: between operations, isWhitelisted(u) is true exactly when the active
\* collection has an entry for u, case and surrounding whitespace ignored.
C7_LookupMatchesActiveCollection ==
    \A u \in NameInputs :
        validateUsername(u) =>
            (isWhitelisted(World, u) <=> hasEntry(ActiveEntries(World), u))

\* C18: when addUser(u) has added u, every v equal to u up to case and
\* surrounding whitespace is whitelisted, addUser(v) returns false and leaves
\* the collections as they are, and removeUser(v) removes u's entry.
C18_MembershipIgnoresCase ==
    [][\A u \in NameInputs, v \in NameInputs :
          (/\ tr'.op = "addUser" /\ tr'.result = "ok"
           /\ ~hasEntry(collections[activeCollection], u)
           /\ hasEntry(collections'[activeCollection'], u)
           /\ validateUsername(v) /\ EntryKey(v) = EntryKey(u))
          => /\ isWhitelisted(World', v)
             /\ addUser(World', v).tr.result = "false"
             /\ addUser(World', v).collections = collections'
             /\ ~hasEntry(ActiveEntries(removeUser(World', v)), u)
             /\ ~isWhitelisted(removeUser(World', v), u)]_vars

\* " Alice " was added to the empty whitelist and "alice" is whitelisted
C18_Witness ==
    /\ tr.op = "addUser" /\ tr.result = "ok"
    /\ ActiveEntries(World) = <<"Alice">>
    /\ isWhitelisted(World, "alice")
    /\ addUser(World, "alice").tr.result = "false"

\* the active collection and the editor of w are those of the current state
EditorKept(w) == w.activeCollection = activeCollection /\ w.ui.editor = ui.editor

\* C22: while the editor has unsaved changes, no panel action changes the
\* active collection and overwrites the editor without the user confirming:
\* creating a collection asks for no confirmation, a declined switch or
\* deletion changes nothing.
C22_UnsavedChangesAreProtected ==
    [][ui.hasUnsavedChanges =>
          /\ tr'.op = "uiCreate" => EditorKept(World')
          /\ \A id \in CollectionIds :
                 EditorKept(uiHandleCollectionSwitch(World, id, FALSE))
          /\ EditorKept(uiDeleteCollection(World, FALSE))]_vars

-----------------------------------------------------------------------------
(* The result cache                                                          *)
(* The page shows two messages that the selector li.message matched and     *)
(* that carry no id: one written by bob, one with no author.  The engine is *)
(* started, called directly and refreshed while the settings and the        *)
(* whitelist change.                                                         *)

Init == InitWith(<<>>, DEFAULTS, FALSE, NoFaults, {2, 3}, FALSE)

Next ==
    \/ Initialize
    \/ Shutdown
    \/ RefreshCall
    \/ \E nodes \in {<<2>>, <<3>>, <<2, 3>>} : ProcessCall(nodes)
    \/ \E field \in Toggles, value \in BOOLEAN : SystemSet(field, value)
    \/ \E u \in {"bob"} : AddUser(u)
    \/ \E u \in {"bob"} : RemoveUser(u)

Spec == Init /\ [][Next]_vars

\* C2: a message in the document from which no username can be resolved is
\* never hidden or collapsed and none of its descendants is suppressed.
C2_NoAuthorStaysVisible ==
    \A n \in Nodes :
        (InDoc(World, n) /\ extractUsername(World, n) = None) => Unsuppressed(dom[n])

\* processMessages called once more, in this state, on the nodes of the call
\* that has just returned.
SecondCall == processMessages(BeginOn("process", tr.nodes), tr.nodes)

\* The second call found n in the cache, resolved and looked up nothing for it,
\* and left it with the action the first call applied.
SecondIsHit(n) ==
    /\ n \in SecondCall.tr.hit
    /\ n \notin SecondCall.tr.extracted
    /\ n \notin SecondCall.tr.looked
    /\ Carried(SecondCall.dom[n]) = Carried(dom[n])

C24_StartScansPresentMessages ==
    [][(~isInitialized /\ ~isObserving /\ tr'.op = "initialize" /\ globalSettings'.enabled)
          => \A n \in Nodes :
                 (dom'[n].life = "doc" /\ extractUsername(World', n) # None)
                     => /\ n \in tr'.visited
                        /\ Carried(dom'[n]) = Expected(n)']_vars

-----------------------------------------------------------------------------
(* Malformed messages                                                        *)
(* The page shows a message by alice and one by bob; for one of them a DOM  *)
(* step throws (username resolution, the whitelist lookup, applying the     *)
(* classes, removing them).  The statistics are followed.                    *)

InitFault ==
    \E n \in {1, 2}, f \in Faults :
        InitWith(<<"alice">>, DEFAULTS, FALSE, [NoFaults EXCEPT ![n] = f], {1, 2}, TRUE)

NextFault ==
    \/ \E nodes \in {<<1>>, <<2>>, <<1, 2>>} : ProcessCall(nodes)
    \/ Initialize
    \/ RefreshCall
    \/ ResetStats
    \/ \E checked \in BOOLEAN : PanelEnable(checked)

SpecFault == InitFault /\ [][NextFault]_vars

\* C10: when processMessages(nodes) has returned with filtering enabled, every
\* node of the call was processed, the batch was counted, and a node for which
\* a step throws is left visible.
C10_FailureStaysWithItsMessage ==
    (tr.op = "process" /\ isEnabled(World)) =>
        /\ ~tr.escaped
        /\ \A n \in ToSet(tr.nodes) :
              /\ n \in tr.visited
              /\ fault[n] # "none" => Carried(dom[n]) = "Show"

\* C11: when the whitelist lookup throws while processMessages classifies a
\* message, the message gets the action of a non-whitelisted author under the
\* current settings (Collapse, or Remove under hardHide).
C11_LookupFailureCountsAsNotWhitelisted ==
    (tr.op = "process" /\ isEnabled(World)) =>
        \A n \in tr.looked :
            fault[n] = "lookup" => Carried(dom[n]) = PolicyAction(FALSE, globalSettings)

-----------------------------------------------------------------------------
(***************************************************************************)
(* The observer                                                             *)
(* The host renders and removes messages while the observer is started and *)
(* stopped, directly (WL.filter.engine.observer) and through the engine's  *)
(* initialize() and shutdown(); the debounce timer fires whenever pending. *)
(***************************************************************************)

\* observer.stop(); the history keeps what was buffered when it was called
ObserverStop == Commit(stop(BeginOn("stop", pendingMutations)))

ObserverStart == Commit(start(Begin("start")))

InitObserver == InitWith(<<>>, DEFAULTS, FALSE, NoFaults, {}, FALSE)

NextObserver ==
    \/ \E n \in {1, 2}, wrapped \in BOOLEAN : HostAdd({n}, wrapped)
    \/ \E wrapped \in BOOLEAN : HostAdd({1, 2}, wrapped)
    \/ \E n \in Nodes : HostRemove(n)
    \/ \E n \in {1, 2} : HostReattach(n)
    \/ DebounceFire
    \/ ObserverStart
    \/ ObserverStop
    \/ Initialize
    \/ Shutdown
    \/ \E checked \in BOOLEAN : PanelEnable(checked)

SpecObserver == InitObserver /\ [][NextObserver]_vars

\* C12: when stop() has returned, no observer is connected, no debounce timer
\* is pending and the buffer is empty; and while the observer is stopped no
\* flush runs.
C12_StopDropsTimerAndBuffer ==
    [][/\ tr'.op = "stop" => /\ observers' = 0
                             /\ debounceTimers' = 0
                             /\ pendingMutations' = <<>>
       /\ ~isObserving => tr'.op # "flush"]_vars

\* stop() was called with mutations buffered, and they are gone
C12_Witness ==
    /\ tr.op = "stop" /\ tr.nodes # <<>>
    /\ ~isObserving /\ debounceTimers = 0 /\ pendingMutations = <<>>

\* C17: when a flush of the observer has run, every id in the result cache is
\* the id of a message that is in the document.
C17_CacheHoldsPresentMessagesOnly ==
    tr.op = "flush" =>
        \A id \in DOMAIN messageCache : \E n \in Nodes : dom[n].life = "doc" /\ MsgId(n) = id

\* s holds each element of nodes once, in the order of its first occurrence
RECURSIVE IsDiscoveryOrder(_, _)
IsDiscoveryOrder(s, nodes) ==
    IF nodes = <<>> THEN s = <<>>
    ELSE /\ s # <<>> /\ Head(s) = Head(nodes)
         /\ IsDiscoveryOrder(Tail(s), SelectSeq(nodes, LAMBDA x : x # Head(nodes)))

\* C25: the records buffered when the debounce timer fires are flushed as one
\* batch that holds each message node once, in the order of discovery, also
\* when a node was found in several records or inside an added subtree; one
\* timer is pending at most, and a flush leaves nothing buffered.
C25_FlushIsOneDeduplicatedBatch ==
    /\ [](debounceTimers <= 1)
    /\ [][tr'.op = "flush" =>
             /\ IsDiscoveryOrder(tr'.nodes, pendingMutations)
             /\ pendingMutations' = <<>> /\ debounceTimers' = 0
             /\ globalSettings.enabled => tr'.visited = ToSet(tr'.nodes)]_vars

\* a flush whose buffer named a node more than once processed both messages
C25_Witness ==
    /\ tr.op = "flush" /\ tr.result = "deduplicated"
    /\ Len(tr.nodes) = 2 /\ tr.visited = {1, 2}

-----------------------------------------------------------------------------
(***************************************************************************)
(* The statistics                                                           *)
(* The page shows a message by alice (whitelisted) and one by bob.  The    *)
(* engine is started, stopped, called directly, refreshed and cleared, and *)
(* the statistics are reset; the counters are followed.                    *)
(***************************************************************************)

InitStats == InitWith(<<"alice">>, DEFAULTS, FALSE, NoFaults, {1, 2}, TRUE)

NextStats ==
    \/ \E nodes \in {<<1>>, <<2>>, <<1, 2>>} : ProcessCall(nodes)
    \/ RefreshCall
    \/ ClearAllCall
    \/ Initialize
    \/ Shutdown
    \/ ResetStats

SpecStats == InitStats /\ [][NextStats]_vars

\* C13: no step lowers processed, filtered or whitelisted, except resetStats.
C13_CountersOnlyGrow ==
    [][(\/ stats'.processed < stats.processed
        \/ stats'.filtered < stats.filtered
        \/ stats'.whitelisted < stats.whitelisted) => tr'.op = "resetStats"]_vars

\* shutdown() or clearAllFiltering() has run and the counters are still there
C13_Witness ==
    /\ tr.op \in {"shutdown", "clear"}
    /\ stats.processed > 0 /\ stats.filtered > 0 /\ stats.whitelisted > 0

-----------------------------------------------------------------------------
(***************************************************************************)
(* The per-message toggle                                                   *)
(* The toggle map and the policy's toggle rule are not part of this        *)
(* version of the script: they are taken from the design (ToggleState,     *)
(* decide's rule 1, setToggle's single re-apply).  Rules 2 to 5 are        *)
(* applyDisplayMode.  The page shows a message by alice (whitelisted) and  *)
(* one by bob; the user toggles them, the settings and the whitelist       *)
(* change, a message is re-applied, the re-check timeouts fire.            *)
(***************************************************************************)

\* getToggle(messageId): an absent key is "no override"
getToggle(w, id) == id \in DOMAIN w.toggleState /\ w.toggleState[id]

\* decide(isWhitelisted, settings, toggleOverride)
decide(isW, g, toggleOverride) ==
    IF toggleOverride THEN "Show"
    ELSE IF g.showAllTemp \/ ~g.enabled THEN "Show"
    ELSE IF isW THEN "Show"
    ELSE IF g.hardHide THEN "Remove"
    ELSE "Collapse"

\* the re-apply of one message's action: Show under the override, else the
\* display mode of its author (a message without author stays visible)
reapply(w, n) ==
    IF getToggle(w, MsgId(n)) \/ extractUsername(w, n) = None
    THEN [w EXCEPT !.dom[n] = removeFilterClasses(@)]
    ELSE applyDisplayMode(w, n, isWhitelisted(w, extractUsername(w, n))).w

\* setToggle(messageId, visible): the entry, then the single re-apply
setToggle(w, n, visible) ==
    reapply([w EXCEPT !.toggleState = (MsgId(n) :> visible) @@ @], n)

SetToggle(n, visible) ==
    /\ dom[n].life = "doc"
    /\ Commit(setToggle(BeginOn("setToggle", <<n>>), n, visible))

Reapply(n) ==
    /\ dom[n].life = "doc"
    /\ Commit(reapply(BeginOn("reapply", <<n>>), n))

InitToggle == InitWith(<<"alice">>, DEFAULTS, FALSE, NoFaults, {1, 2}, FALSE)

NextToggle ==
    \/ \E n \in Nodes, visible \in BOOLEAN : SetToggle(n, visible)
    \/ \E n \in Nodes : Reapply(n)
    \/ \E field \in Toggles, value \in BOOLEAN : SystemSet(field, value)
    \/ AddUser("bob")
    \/ RemoveUser("bob")
    \/ \E n \in Nodes : RecheckFire(n)

SpecToggle == InitToggle /\ [][NextToggle]_vars

\* The action a message carries, as the policy names it.
ActionOf(nr) == IF Carried(nr) = "ShowIndicator" THEN "Show" ELSE Carried(nr)

-----------------------------------------------------------------------------
(***************************************************************************)
(* Username resolution in a group of messages                              *)
(* The backward search for the author of a continuation message is not     *)
(* part of this version of the script (extractUsername ends with its       *)
(* fallback loop): it is taken from the design, step 4 of the resolver.    *)
(* The host renders a channel, message after message: one that names its   *)
(* author, or a continuation without any username element; any message of  *)
(* the channel is resolved.                                                *)
(***************************************************************************)

MaxFeed == 13          \* messages rendered in the channel
MaxAuthored == 2       \* of which this many name their author

MaxHops == 10

\* extractUsername on the username texts of one message: the first selector
\* that matches gives the first username element, the fallback scans them all
OwnUsername(texts) ==
    IF texts # <<>> /\ Len(Trim(Head(texts))) > 0 THEN Trim(Head(texts))
    ELSE FirstUsable(texts)

\* A variant that walks on past the limit.
WalkBackUnbounded(msgs, j, hops) ==
    LET found == {k \in 1..j : OwnUsername(msgs[k]) # None}
    IN  IF found = {} THEN None
        ELSE OwnUsername(msgs[CHOOSE k \in found : \A l \in found : l <= k])

\* findUsernameFromPreviousMessage: the preceding sibling messages, nearest
\* first, up to MaxHops of them; hops is the number of the hop that reads msgs[j]
RECURSIVE WalkBack(_, _, _)
WalkBack(msgs, j, hops) ==
    IF j < 1 \/ hops > MaxHops THEN None
    ELSE IF OwnUsername(msgs[j]) # None THEN OwnUsername(msgs[j])
    ELSE WalkBack(msgs, j - 1, hops + 1)

\* A variant that asks the preceding messages first.
resolveUsernamePreviousFirst(msgs, i) ==
    IF WalkBack(msgs, i - 1, 1) # None THEN WalkBack(msgs, i - 1, 1)
    ELSE OwnUsername(msgs[i])

\* extractUsername with the backward search as its last step
resolveUsername(msgs, i) ==
    IF OwnUsername(msgs[i]) # None THEN OwnUsername(msgs[i])
    ELSE WalkBack(msgs, i - 1, 1)

Authored(msgs) == Cardinality({k \in DOMAIN msgs : msgs[k] # <<>>})

\* The host renders the channel's next message.
HostRender(texts) ==
    /\ Len(feed) < MaxFeed
    /\ texts # <<>> => Authored(feed) < MaxAuthored
    /\ Commit([Begin("render") EXCEPT !.feed = Append(@, texts)])

\* extractUsername(the i-th message of the channel)
ResolveCall(i) ==
    /\ i \in DOMAIN feed
    /\ Commit(Result(BeginOn("resolve", <<i>>), resolveUsername(feed, i)))

InitResolve == InitWith(<<>>, DEFAULTS, FALSE, NoFaults, {}, FALSE)

NextResolve ==
    \/ \E texts \in {<<>>, <<"alice">>, <<"bob">>} : HostRender(texts)
    \/ \E i \in 1..MaxFeed : ResolveCall(i)

SpecResolve == InitResolve /\ [][NextResolve]_vars

\* C15: a resolved message that names its author resolves to that name, never
\* to the author before it; one without any username element that directly
\* follows a message naming A resolves to A.
C15_ContinuationInheritsPredecessor ==
    tr.op = "resolve" =>
        /\ feed[tr.nodes[1]] # <<>> => tr.result = Trim(feed[tr.nodes[1]][1])
        /\ (feed[tr.nodes[1]] = <<>> /\ tr.nodes[1] > 1 /\ feed[tr.nodes[1] - 1] # <<>>)
              => tr.result = Trim(feed[tr.nodes[1] - 1][1])

\* [bob, alice, continuation] resolved at the continuation: alice, not bob
C15_Witness ==
    /\ tr.op = "resolve" /\ tr.nodes = <<3>>
    /\ feed[1] = <<"bob">> /\ feed[2] = <<"alice">> /\ feed[3] = <<>>
    /\ tr.result = "alice"

\* The number of hops from message i back to the nearest message that names
\* its author; 0 when there is none.
HopsToAuthor(i) ==
    LET named == {k \in 1..(i - 1) : feed[k] # <<>>}
    IN  IF named = {} THEN 0 ELSE i - (CHOOSE k \in named : \A l \in named : l <= k)

\* C16: a resolved continuation message gets the name of the nearest preceding
\* message that names its author when that message is at most MaxHops hops
\* back, and null when it is further back or there is none.
C16_WalkStopsAfterTenHops ==
    (tr.op = "resolve" /\ feed[tr.nodes[1]] = <<>>) =>
        IF HopsToAuthor(tr.nodes[1]) \in 1..10
        THEN tr.result = Trim(feed[tr.nodes[1] - HopsToAuthor(tr.nodes[1])][1])
        ELSE tr.result = None

\* the eleventh continuation after the author resolves to null, the tenth to
\* the author
C16_Witness ==
    /\ tr.op = "resolve" /\ feed[tr.nodes[1]] = <<>>
    /\ HopsToAuthor(tr.nodes[1]) = 11 /\ tr.result = None
    /\ resolveUsername(feed, tr.nodes[1] - 1) = "alice"

-----------------------------------------------------------------------------
(* Storage and the page reload                                               *)
(* The script is loaded over a storage that holds nothing, a saved           *)
(* configuration with its collections, or the state of the script's first    *)
(* version; the whitelist, the collections and the settings are changed      *)
(* through the API, reset, and the page is reloaded.                         *)

getLegacyState(w) ==
    [whitelist |-> ActiveEntries(w), enabled |-> w.globalSettings.enabled,
     hardHide |-> w.globalSettings.hardHide, showAllTemp |-> w.globalSettings.showAllTemp]

\* loadConfig: { ...DEFAULT_CONFIG, ...stored }, a shallow copy: with nothing
\* stored, config.globalSettings is DEFAULT_CONFIG's own object.
loadConfig(st) ==
    [globalSettings |-> IF st.hasConfig THEN st.globalSettings ELSE DEFAULTS,
     activeCollection |-> IF st.hasConfig THEN st.activeCollection ELSE "default",
     aliased |-> ~st.hasConfig]

StoredCollections(st) == IF st.hasCollections THEN st.collections ELSE <<>>

\* loadCollections: the stored collections, and the default one if it is missing
loadCollections(st) ==
    IF "default" \in DOMAIN StoredCollections(st) THEN StoredCollections(st)
    ELSE StoredCollections(st) @@ ("default" :> <<>>)

\* the new StorageManager before the migration; the page, the engine and the
\* observer start over, DEFAULT_CONFIG is built anew
Constructed(st, flt, op) ==
    [collections |-> loadCollections(st),
     activeCollection |-> IF loadConfig(st).activeCollection \in DOMAIN loadCollections(st)
                          THEN loadConfig(st).activeCollection ELSE "default",
     userLookup |-> {}, globalSettings |-> loadConfig(st).globalSettings,
     defaultGlobalSettings |-> DEFAULTS, aliased |-> loadConfig(st).aliased,
     store |-> st,
     ui |-> [activeCollectionId |-> "default", hasUnsavedChanges |-> FALSE, editor |-> <<>>],
     messageCache |-> <<>>, toggleState |-> <<>>, stats |-> NoStats,
     isInitialized |-> FALSE, engineSubs |-> 0, isObserving |-> FALSE, observers |-> 0,
     debounceTimers |-> 0, pendingMutations |-> <<>>, rechecks |-> [n \in Nodes |-> 0],
     dom |-> [n \in Nodes |-> FreshNode], feed |-> <<>>,
     root |-> [present |-> TRUE, target |-> "none"], subscribed |-> <<>>, fault |-> flt,
     tr |-> NewTr(op, <<>>)]

\* migrateLegacyData: the legacy whitelist goes into the default collection and
\* the legacy settings into the configuration; the legacy value stays stored.
migrateLegacyData(w) ==
    IF w.store.legacy.stored /\ Len(w.store.legacy.whitelist) > 0
    THEN saveConfig(saveCollections(
             SetSetting(SetSetting(SetSetting(
                 [w EXCEPT !.collections["default"] = AddEach(@, w.store.legacy.whitelist)],
                 "enabled", w.store.legacy.settings.enabled),
                 "hardHide", w.store.legacy.settings.hardHide),
                 "showAllTemp", w.store.legacy.settings.showAllTemp)))
    ELSE w

\* the panel opens on the active collection
WithPanel(w) ==
    [w EXCEPT !.ui = [activeCollectionId |-> w.activeCollection, hasUnsavedChanges |-> FALSE,
                      editor |-> ActiveEntries(w)]]

\* the script runs: new StorageManager(), new WhitelistManager(), new UIManager()
scriptLoad(st, flt, op) ==
    WithPanel(rebuildLookupCache(migrateLegacyData(Constructed(st, flt, op))))

Reload == Commit(scriptLoad(store, fault, "reload"))

Holds(w) ==
    /\ collections = w.collections
    /\ activeCollection = w.activeCollection
    /\ userLookup = w.userLookup
    /\ globalSettings = w.globalSettings
    /\ defaultGlobalSettings = w.defaultGlobalSettings
    /\ aliased = w.aliased
    /\ store = w.store
    /\ ui = w.ui
    /\ messageCache = w.messageCache
    /\ toggleState = w.toggleState
    /\ stats = w.stats
    /\ isInitialized = w.isInitialized
    /\ engineSubs = w.engineSubs
    /\ isObserving = w.isObserving
    /\ observers = w.observers
    /\ debounceTimers = w.debounceTimers
    /\ pendingMutations = w.pendingMutations
    /\ rechecks = w.rechecks
    /\ dom = w.dom
    /\ feed = w.feed
    /\ root = w.root
    /\ subscribed = w.subscribed
    /\ fault = w.fault
    /\ tr = w.tr

NothingStored ==
    [hasConfig |-> FALSE, activeCollection |-> "default", globalSettings |-> DEFAULTS,
     hasCollections |-> FALSE, collections |-> <<>>, legacy |-> NoLegacy]

\* a configuration and a whitelist saved by an earlier session
SavedSession ==
    [NothingStored EXCEPT !.hasConfig = TRUE, !.globalSettings.showAllTemp = TRUE,
                          !.hasCollections = TRUE,
                          !.collections = ("default" :> <<"alice">>)]

\* the value the script's first version stored
LegacyOnly ==
    [NothingStored EXCEPT !.legacy = [stored |-> TRUE, whitelist |-> <<"alice">>,
                                      settings |-> [DEFAULTS EXCEPT !.hardHide = TRUE]]]

Storages == {NothingStored, SavedSession, LegacyOnly}

InitStorage ==
    /\ \E st \in Storages : Holds(scriptLoad(st, NoFaults, "load"))
    /\ counted = FALSE

NextStorage ==
    \/ \E u \in {"alice", "bob"} : AddUser(u)
    \/ \E u \in {"alice", "bob"} : RemoveUser(u)
    \/ \E partial \in StateInputs : SetState(partial)
    \/ \E field \in Toggles, value \in BOOLEAN : SystemSet(field, value)
    \/ ResetState
    \/ \E id \in CollectionIds : CreateCollection(id)
    \/ \E id \in CollectionIds : SwitchActiveCollection(id)
    \/ \E id \in CollectionIds : DeleteCollection(id)
    \/ Reload

SpecStorage == InitStorage /\ [][NextStorage]_vars

\* C19: after resetState(), getState() returns an empty whitelist with
\* enabled = true, hardHide = false and showAllTemp = false, whatever was set
\* before and whether or not a configuration had been stored.
C19_ResetRestoresDefaults ==
    tr.op = "resetState" =>
        getLegacyState(World) = [whitelist |-> <<>>, enabled |-> TRUE,
                                 hardHide |-> FALSE, showAllTemp |-> FALSE]

\* C20: a page reload leaves the active collection id, the entry set of every
\* collection and the three settings as they were just before it; a user
\* removed before the reload is not whitelisted after it.
C20_ReloadRestoresState ==
    [][tr'.op = "reload" =>
          /\ activeCollection' = activeCollection
          /\ DOMAIN collections' = DOMAIN collections
          /\ \A id \in DOMAIN collections :
                 KeysOf(collections'[id]) = KeysOf(collections[id])
          /\ globalSettings' = globalSettings
          /\ \A u \in {"alice", "bob"} :
                 ~hasEntry(collections[activeCollection], u)
                     => ~isWhitelisted(World', u)]_vars

\* C23: the collection 'default' always exists and the active id names an
\* existing collection; deleting the active collection makes 'default' active;
\* deleting 'default', switching to an unknown id and creating a duplicate id
\* throw, and a call that threw changed neither the collections nor the active id.
C23_ActiveCollectionExists ==
    /\ [](/\ "default" \in DOMAIN collections
          /\ activeCollection \in DOMAIN collections
          /\ deleteCollection(Begin("deleteCollection"), "default").tr.result = "throw"
          /\ \A id \in CollectionIds :
                 /\ id \in DOMAIN collections
                        => createCollection(Begin("createCollection"), id).tr.result = "throw"
                 /\ id \notin DOMAIN collections
                        => switchActiveCollection(Begin("switch"), id).tr.result = "throw")
    /\ [][/\ activeCollection \notin DOMAIN collections' => activeCollection' = "default"
          /\ (tr'.op \in {"createCollection", "deleteCollection", "switch"}
              /\ tr'.result = "throw")
                 => collections' = collections /\ activeCollection' = activeCollection]_vars

\* the active collection c1 was deleted: 'default' is active again
C23_Witness ==
    /\ tr.op = "deleteCollection" /\ tr.result = "ok"
    /\ store.hasConfig /\ store.activeCollection = "default"
    /\ ui.activeCollectionId = Undefined
    /\ activeCollection = "default" /\ DOMAIN collections = {"default"}

-----------------------------------------------------------------------------
(* Bulk updates                                                              *)
(* Lists of add and remove operations are applied to the whitelist, some of  *)
(* them holding a name that addUser rejects.                                 *)

\* one operation of the list, inside its own try/catch
BulkStep(w, op) ==
    IF op.action = "add" THEN addUser(Result(w, "ok"), op.username)
    ELSE IF op.action = "remove" THEN removeUser(Result(w, "ok"), op.username)
    ELSE Result(w, "false")

RECURSIVE BulkEach(_, _, _)
BulkNext(w1, rest, failed) == BulkEach(w1, rest, failed \/ w1.tr.result = "throw")

\* the loop over the operations; failed: errors is not empty
BulkEach(w, operations, failed) ==
    IF operations = <<>> THEN Result(w, IF failed THEN "errors" ELSE "ok")
    ELSE BulkNext(BulkStep(w, Head(operations)), Tail(operations), failed)

bulkUpdate(w, operations) == emit(BulkEach(w, operations, FALSE), "whitelist:bulk_update")

BulkUpdate(operations) == Commit(bulkUpdate(Begin("bulkUpdate"), operations))

Add(u) == [action |-> "add", username |-> u]

Remove(u) == [action |-> "remove", username |-> u]

BulkInputs ==
    {<<Add("alice")>>, <<Add("bob"), Add("   ")>>, <<Remove("alice"), Add(LongName)>>,
     <<Add(" Alice "), Remove("bob")>>, <<Add("   "), Add("bob")>>}

InitBulk == InitWith(<<>>, DEFAULTS, FALSE, NoFaults, {}, FALSE)

NextBulk ==
    \/ \E operations \in BulkInputs : BulkUpdate(operations)
    \/ \E u \in {"alice", "bob"} : AddUser(u)
    \/ \E u \in {"alice", "bob"} : RemoveUser(u)
    \/ ClearWhitelist
    \/ \E lines \in LineInputs : ImportWhitelist(lines)
    \/ \E id \in CollectionIds : CreateCollection(id)
    \/ \E id \in CollectionIds : SwitchActiveCollection(id)

SpecBulk == InitBulk /\ [][NextBulk]_vars

\* C21: a bulkUpdate in which an operation failed leaves the active whitelist
\* and the lookup cache as they were before the call.
C21_BulkUpdateIsAtomic ==
    [][(tr'.op = "bulkUpdate" /\ tr'.result = "errors")
          => /\ collections' = collections
             /\ userLookup' = userLookup]_vars

-----------------------------------------------------------------------------
(* Batches                                                                   *)
(* processMessages is called with one message, and with a list longer than   *)
(* one batch; between the calls the whitelist and the settings change.       *)

batchSize == 20

\* a list of batchSize + 1 elements: the message by alice again and again, then
\* the message by bob
LongList == [i \in 1..(batchSize + 1) |-> IF i <= batchSize THEN 1 ELSE 2]

InitBatch == InitWith(<<"alice">>, DEFAULTS, FALSE, NoFaults, {1, 2}, FALSE)

NextBatch ==
    \/ \E nodes \in {<<1>>, <<2>>, LongList} : ProcessCall(nodes)
    \/ \E u \in {"alice", "bob"} : AddUser(u)
    \/ \E u \in {"alice", "bob"} : RemoveUser(u)
    \/ \E field \in Toggles, value \in BOOLEAN : SystemSet(field, value)
    \/ ClearAllCall

SpecBatch == InitBatch /\ [][NextBatch]_vars

\* C26: processMessages yields between two batches of batchSize messages: no
\* single uninterrupted step of the engine handles an input longer than one batch.
C26_YieldsBetweenBatches ==
    [][(tr'.op = "process" /\ globalSettings.enabled /\ tr'.visited = ToSet(tr'.nodes))
          => Len(tr'.nodes) <= batchSize]_vars

-----------------------------------------------------------------------------
(* The root container                                                        *)
(* The document has #app-mount or not when the observer starts; the host     *)
(* adds it, replaces it, and renders messages.                               *)

InitRoot ==
    /\ \E present \in BOOLEAN :
           Holds([scriptLoad(NothingStored, NoFaults, "load") EXCEPT !.root.present = present])
    /\ counted = FALSE

NextRoot ==
    \/ \E n \in {1, 2}, wrapped \in BOOLEAN : HostAdd({n}, wrapped)
    \/ \E n \in Nodes : HostRemove(n)
    \/ HostReplaceRoot
    \/ HostMountRoot
    \/ DebounceFire
    \/ ObserverStart
    \/ ObserverStop
    \/ Initialize
    \/ \E checked \in BOOLEAN : PanelEnable(checked)

SpecRoot == InitRoot /\ [][NextRoot]_vars

\* C27: while the observer is running, a message that the host renders is
\* buffered for the next flush, also after the root container was replaced;
\* started without a root container, the observer observes the body and
\* start() does not throw.
C27_ObserverSurvivesRootReplacement ==
    /\ [][\A n \in Nodes :
             (isObserving /\ dom[n].life = "new" /\ dom'[n].life = "doc")
                 => /\ n \in ToSet(pendingMutations')
                    /\ debounceTimers' > 0]_vars
    /\ [][(~isObserving /\ isObserving' /\ ~root.present)
             => root'.target = "body" /\ tr'.result # "throw"]_vars

-----------------------------------------------------------------------------
(* Switching the collection under a running engine                           *)
(* The page shows a message by alice and one by bob; collections are         *)
(* created, filled and switched while the engine runs.                       *)

InitSwitch == InitWith(<<"alice">>, DEFAULTS, FALSE, NoFaults, {1, 2}, FALSE)

NextSwitch ==
    \/ Initialize
    \/ Shutdown
    \/ \E id \in CollectionIds : CreateCollection(id)
    \/ \E id \in CollectionIds : SwitchActiveCollection(id)
    \/ \E u \in {"bob"} : AddUser(u)
    \/ \E u \in {"bob"} : RemoveUser(u)
    \/ ClearWhitelist
    \/ \E checked \in BOOLEAN : PanelEnable(checked)

SpecSwitch == InitSwitch /\ [][NextSwitch]_vars

\* C30: when switchActiveCollection has completed under an initialized,
\* enabled engine, the lookup holds the keys of the new active collection and
\* every message with a resolvable author carries the action the policy gives
\* for its membership in the new active collection.
C30_SwitchRefreshesAgainstNewCollection ==
    [][(tr'.op = "switch" /\ tr'.result = "ok" /\ isInitialized /\ globalSettings.enabled)
          => /\ userLookup' = KeysOf(collections'[activeCollection'])
             /\ \A n \in Nodes :
                    (dom'[n].life = "doc" /\ extractUsername(World', n) # None)
                        => Carried(dom'[n]) = Expected(n)']_vars

\* the switch to c1, which holds bob and not alice, has been made
C30_Witness ==
    /\ tr.op = "switch" /\ tr.result = "ok" /\ isInitialized /\ globalSettings.enabled
    /\ activeCollection = "c1" /\ collections["c1"] = <<"bob">>
    /\ collections["default"] = <<"alice">>
    /\ Carried(dom[1]) = "Collapse" /\ Carried(dom[2]) = "ShowIndicator"

\* C31: when the handlers of whitelist:user_added, whitelist:user_removed or
\* whitelist:cleared have run, the persisted collections and the lookup hold
\* the change, and the refresh that the engine's handler ran classified every
\* message against the changed whitelist.
C31_HandlersSeeTheAppliedChange ==
    [][(tr'.op \in {"addUser", "removeUser", "clearWhitelist"} /\ tr'.result = "ok")
          => /\ store'.hasCollections /\ store'.collections = collections'
             /\ userLookup' = KeysOf(collections'[activeCollection'])
             /\ (isInitialized /\ globalSettings.enabled)
                    => \A n \in Nodes :
                           (dom'[n].life = "doc" /\ extractUsername(World', n) # None)
                               => Carried(dom'[n]) = Expected(n)']_vars

\* bob was added under a running engine: his message carries the indicator
C31_Witness ==
    /\ tr.op = "addUser" /\ tr.result = "ok" /\ isInitialized /\ globalSettings.enabled
    /\ hasEntry(ActiveEntries(World), "bob")
    /\ Carried(dom[2]) = "ShowIndicator"

-----------------------------------------------------------------------------
(* Event handlers                                                            *)
(* Handlers are subscribed to and removed from the whitelist and collection *)
(* events through WL.events, one of them throwing; the whitelist and the    *)
(* active collection change under a running engine.                         *)

HandlerInputs == {Thrower, "listener"}

InitEvents == InitWith(<<>>, DEFAULTS, FALSE, NoFaults, {2}, FALSE)

NextEvents ==
    \/ \E handler \in HandlerInputs : EventsOn(handler)
    \/ \E handler \in HandlerInputs : EventsOff(handler)
    \/ Initialize
    \/ \E u \in {"bob"} : AddUser(u)
    \/ \E u \in {"bob"} : RemoveUser(u)
    \/ \E id \in CollectionIds : CreateCollection(id)
    \/ \E id \in CollectionIds : SwitchActiveCollection(id)

SpecEvents == InitEvents /\ [][NextEvents]_vars

\* C32: an addUser or removeUser that changed the whitelist and a switch to
\* another collection report success whatever the handlers do; every
\* subscribed handler has been called, in order, the handlers after one that
\* throws included and the engine's refresh among them; a handler that was
\* removed is not called.
C32_EmitIsolatesHandlers ==
    [][(\/ tr'.op \in {"addUser", "removeUser"} /\ collections' # collections
        \/ tr'.op = "switch" /\ activeCollection' # activeCollection)
          => /\ tr'.result = "ok"
             /\ tr'.called = subscribed
             /\ isInitialized => tr'.cleared]_vars

\* bob was added while a throwing handler was subscribed before another one
C32_Witness ==
    /\ tr.op = "addUser" /\ tr.result = "ok" /\ isInitialized /\ tr.cleared
    /\ tr.called = <<Thrower, "listener">>
    /\ hasEntry(ActiveEntries(World), "bob")

-----------------------------------------------------------------------------
(* Host styles                                                               *)
(* The page shows a message by a whitelisted author; the host sets inline   *)
(* styles on its content and renders a second message; the engine starts,   *)
(* refreshes and re-checks, and the whitelist and the master switch change. *)

InitStyle == InitWith(<<"alice">>, DEFAULTS, FALSE, NoFaults, {1}, FALSE)

NextStyle ==
    \/ \E n \in {1, 2} : HostStyle(n)
    \/ \E wrapped \in BOOLEAN : HostAdd({2}, wrapped)
    \/ \E n \in {1, 2} : HostInject(n)
    \/ \E n \in {1, 2} : HostRemove(n)
    \/ \E n \in {1, 2} : RecheckFire(n)
    \/ DebounceFire
    \/ Initialize
    \/ RefreshCall
    \/ \E checked \in BOOLEAN : PanelEnable(checked)
    \/ \E u \in {"bob"} : AddUser(u)
    \/ \E u \in {"bob"} : RemoveUser(u)

SpecStyle == InitStyle /\ [][NextStyle]_vars

\* The inline styles of the message's descendants are what the host set.
HostStylesKept(nr) ==
    \A k \in Kids : nr.kids[k].present => nr.kids[k].style = nr.kids[k].hostStyle

\* C33: whenever a message's action is Show (its author is whitelisted or
\* cannot be resolved, filtering is disabled or showAllTemp is set), the
\* inline styles of its descendants are the ones the host had set; and only
\* the host takes a message node out of the document.
C33_EngineKeepsHostPresentation ==
    /\ [](\A n \in Nodes :
             (dom[n].life = "doc" /\ (PolicyVisible(n) \/ extractUsername(World, n) = None))
                 => HostStylesKept(dom[n]))
    /\ [][\A n \in Nodes : (dom[n].life = "doc" /\ dom'[n].life # "doc")
                               => tr'.op = "host"]_vars

\* C34: on a cache hit the result applied to a node was computed from that
\* node's own author: the entry found under the node's id carries the
\* username that the node itself resolves to, for id-less nodes too.
C34_CacheHitIsTheNodesOwnResult ==
    \A n \in tr.hit :
        MsgId(n) \in DOMAIN messageCache
            => messageCache[MsgId(n)].username = extractUsername(World, n)

\* C35: between processMessages calls processed >= filtered + whitelisted,
\* and filtered + whitelisted counts the cache misses that resolved a
\* username: both are zero after resetStats, and every other step adds to
\* the sum the number of nodes it looked up after a miss.
C35_CountersAreConsistent ==
    /\ [](stats.processed >= stats.filtered + stats.whitelisted)
    /\ [][IF tr'.op = "resetStats" THEN stats'.filtered + stats'.whitelisted = 0
          ELSE stats'.filtered + stats'.whitelisted
                   = stats.filtered + stats.whitelisted + Cardinality(tr'.looked)]_vars

-----------------------------------------------------------------------------
(* The observer with a debounce timer that fires                            *)
(* The host renders, moves and removes messages while the engine is started *)
(* and shut down and filtering is switched; a pending debounce timer fires  *)
(* in the end (setTimeout: once no later mutation has re-armed it).         *)

InitLive == InitWith(<<>>, DEFAULTS, FALSE, NoFaults, {}, FALSE)

NextLive ==
    \/ \E n \in {1, 2}, wrapped \in BOOLEAN : HostAdd({n}, wrapped)
    \/ \E n \in {1, 2} : HostReattach(n)
    \/ \E n \in {1, 2} : HostRemove(n)
    \/ DebounceFire
    \/ Initialize
    \/ Shutdown
    \/ \E checked \in BOOLEAN : PanelEnable(checked)

\* A pending timer does not stay pending for ever.  The timer is taken down by
\* DebounceFire and by stop() alone, so this is weak fairness of DebounceFire,
\* written over the one variable it is about.
TimerEnds == debounceTimers > 0 /\ debounceTimers' = 0

SpecLive == InitLive /\ [][NextLive]_vars /\ WF_debounceTimers(TimerEnds)

-----------------------------------------------------------------------------
(* The entry limit                                                           *)
(* The limit of entries per collection is lowered through the configuration *)
(* and the whitelist is filled through the API, the import and the panel.   *)

LimitInputs == {1, 2}

InitLimit == InitWith(<<>>, DEFAULTS, FALSE, NoFaults, {}, FALSE)

NextLimit ==
    \/ \E limit \in LimitInputs : SetMaxEntries(limit)
    \/ \E u \in {"alice", "bob"} : AddUser(u)
    \/ \E u \in {"bob"} : RemoveUser(u)
    \/ \E operations \in {<<Add("alice"), Add("bob")>>} : BulkUpdate(operations)
    \/ \E lines \in LineInputs : ImportWhitelist(lines)
    \/ \E partial \in StateInputs : SetState(partial)
    \/ \E lines \in {<<"alice", "bob">>, <<"bob">>} : UiType(lines)
    \/ UiSave

SpecLimit == InitLimit /\ [][NextLimit]_vars

\* C37: a step that adds entries to a collection, or saves the panel's
\* editor into it, leaves it with globalSettings.maxEntries entries at most.
C37_CollectionsStayWithinMaxEntries ==
    [][\A c \in DOMAIN collections' :
          (\/ c \notin DOMAIN collections
           \/ Len(collections'[c]) > Len(collections[c])
           \/ tr'.op = "uiSave")
              => Len(collections'[c]) <= globalSettings'.maxEntries]_vars

\* s is the beginning of t
IsPrefix(s, t) == Len(s) <= Len(t) /\ SubSeq(t, 1, Len(s)) = s

\* C38: one debounce timer is pending at most, and one is pending whenever
\* records are buffered; the buffer changes in three ways only: a delivery
\* appends to it, a flush takes all of it (every buffered node is in the
\* flush's batch, and nothing is left for a later flush), stop() drops it.
C38_EachRecordIsFlushedOnce ==
    /\ [](debounceTimers <= 1 /\ (pendingMutations # <<>> => debounceTimers = 1))
    /\ [][/\ tr'.op = "flush" => /\ ToSet(tr'.nodes) = ToSet(pendingMutations)
                                /\ pendingMutations' = <<>>
          /\ pendingMutations' # pendingMutations
                 => \/ tr'.op = "host" /\ IsPrefix(pendingMutations, pendingMutations')
                    \/ tr'.op = "flush"
                    \/ tr'.op \in {"stop", "shutdown"} /\ pendingMutations' = <<>>]_vars

\* the observer alone was started; message 2 and then message 1 were
\* delivered, and one flush took both
C38_Witness ==
    /\ tr.op = "flush" /\ tr.nodes = <<2, 1>> /\ ~isInitialized /\ isObserving
    /\ pendingMutations = <<>> /\ debounceTimers = 0

====
